---- MODULE Spec2Model ----
(***************************************************************************)
(* The image-editing IPC backend: backend/ipc_server.py (IPCServer), with  *)
(* backend/tools/Picture.py (the transform library) and                    *)
(* backend/tools/FileHandler.py (file load/save).                          *)
(*                                                                         *)
(* An iteration of IPCServer.run is two actions: readline together with    *)
(* the whole of handle_request for the line read, then _send_response.     *)
(* The loop is single-threaded and synchronous, so each is atomic.         *)
(*                                                                         *)
(* An image is a record: the identity of the Python object (id), its size, *)
(* mode and format attribute, whether its pixel data can be decoded (ok:   *)
(* Image.open is lazy, a truncated file fails only in load()), and its     *)
(* pixel content.  The content is the file it was decoded from (src) and  *)
(* the number of pixel-changing library calls between that decoding and    *)
(* this image (edits).  An image with edits = 0 holds exactly the pixels   *)
(* of src; calls that Pillow implements as a plain copy add nothing.       *)
(***************************************************************************)
EXTENDS Integers, Sequences, FiniteSets, TLC

VARIABLES
    current_image,   \* IPCServer.current_image
    original_image,  \* IPCServer.original_image
    picture_image,   \* IPCServer.picture.image (Picture.image)
    buffer,          \* run(): the local `buffer`, TRUE when it holds an unterminated chunk
    running,         \* run(): the while loop has not been left
    exitCause,       \* why the loop was left: "none", "eof", "interrupt"
    pc,              \* run(): "readline" (waiting for a line) or "send" (about to
                     \* call _send_response)
    request,         \* run(): the request of this iteration
    response,        \* run(): the response handle_request returned for it
    printed,         \* lines the called methods print()ed to sys.stdout in this iteration
    unanswered,      \* requests read from stdin for which no response was written yet
    loads,           \* load requests that returned success = true so far: 0, 1, or 2
                     \* for two or more
    captured,        \* the pixels decoded by the most recent load that returned success
    transformed,     \* a transform request has replaced current_image since that load
    adjusted,        \* the (R, G, B) sample Probe became under this iteration's
                     \* color_temperature, <<>> when there was none
    flipRun          \* the flip requests in succession up to now: their direction,
                     \* how many (1, or 2 for an even number), the pixels of
                     \* current_image before the first of the latest two and
                     \* whether that image could be decoded

vars == <<current_image, original_image, picture_image, buffer, running,
          exitCause, pc, request, response, printed, unanswered, loads, captured,
          transformed, adjusted, flipRun>>

-----------------------------------------------------------------------------
(* Bounds of the model *)

\* most pixel-changing library calls between a decoded file and an image
MaxEdits == 2

(* Program constants *)

\* _create_preview(img, max_size=1024)
PreviewMaxSize == 1024

\* _image_to_base64(img, format, quality=75)
PreviewQuality == 75

\* request.get("max_width", 128), request.get("max_height", 128)
ThumbnailDefault == 128

\* request.get("pixel_size", 10)
PixelSizeDefault == 10

\* request.get("border_width", 10)
BorderWidthDefault == 10

-----------------------------------------------------------------------------
(* Images *)

\* Python's None, in the shape of an image so that the two compare
None == [id |-> 0, w |-> 0, h |-> 0, mode |-> "", format |-> "", ok |-> FALSE,
         src |-> "", edits |-> 0, flips |-> {}]

\* the pixel-level value of an image: what "pixel-identical" compares.  The
\* samples are those of the file src after `edits` lossy or geometric steps,
\* mirrored along the axes in `flips`
Pixels(img) == [w |-> img.w, h |-> img.h, mode |-> img.mode,
                src |-> img.src, edits |-> img.edits, flips |-> img.flips]

\* the identity of a new Python object: one no live reference holds
NewId(live) == CHOOSE i \in 1..(Cardinality(live) + 1) :
                  /\ i \notin {x.id : x \in live}
                  /\ \A j \in 1..(i - 1) : j \in {x.id : x \in live}

\* an image made by the library: Image._new leaves format at None
Derived(img, w, h, mode, edit) ==
    [id |-> 0, w |-> w, h |-> h, mode |-> mode, format |-> "None", ok |-> TRUE,
     src |-> img.src, edits |-> img.edits + edit, flips |-> img.flips]

\* the outcome of a library call: an image, or the exception it raised
Ok(img) == [raised |-> "", img |-> img]
Raise(kind) == [raised |-> kind, img |-> None]

\* Image.load(): decoding the pixel data of a lazily opened file
CanLoad(img) == img.ok

\* Image.copy(): load(), then a new object with the same pixels; the format
\* attribute is not carried over
ImageCopy(img) ==
    IF ~CanLoad(img) THEN Raise("pil")
    ELSE Ok(Derived(img, img.w, img.h, img.mode, 0))

-----------------------------------------------------------------------------
(* Pillow routines the program calls, by what they do to size and mode and *)
(* by when they raise.  Floating-point quotients are taken exactly.        *)

Abs(n) == IF n < 0 THEN -n ELSE n

Min(a, b) == IF a <= b THEN a ELSE b

Max(a, b) == IF a >= b THEN a ELSE b

Ceil(num, den) == IF num % den = 0 THEN num \div den ELSE (num \div den) + 1

Empty(img) == img.w = 0 \/ img.h = 0

HasAlpha(img) == img.mode \in {"LA", "RGBA"}

\* Image.thumbnail's preserve_aspect_ratio for an image of size (w, h) and a
\* requested size (x, y): the size the image is reduced to, <<w, h>> when it
\* already fits, <<0, 0>> when the computation divides by zero
ThumbnailSize(w, h, x, y) ==
    IF x >= w /\ y >= h THEN <<w, h>>
    ELSE IF y = 0 \/ h = 0 THEN <<0, 0>>
    ELSE IF x * h >= w * y
         THEN LET fl == (y * w) \div h
                  ce == Ceil(y * w, h)
                  n  == IF Abs(w * y - fl * h) <= Abs(w * y - ce * h) THEN fl ELSE ce
              IN  <<Max(n, 1), y>>
         ELSE LET fl == (x * h) \div w
                  ce == Ceil(x * h, w)
                  n  == IF fl = 0 THEN fl
                        ELSE IF Abs(w * fl - x * h) * ce <= Abs(w * ce - x * h) * fl
                             THEN fl ELSE ce
              IN  <<x, Max(n, 1)>>

\* img.copy() followed by copy.thumbnail((x, y), LANCZOS): Image.resize
\* refuses a size with a zero side
ThumbnailOfCopy(img, x, y) ==
    LET size == ThumbnailSize(img.w, img.h, x, y) IN
    IF ~CanLoad(img) THEN Raise("pil")
    ELSE IF size = <<img.w, img.h>> THEN ImageCopy(img)
    ELSE IF size[1] < 1 \/ size[2] < 1 THEN Raise("pil")
    ELSE Ok(Derived(img, size[1], size[2], img.mode, 1))

\* Image.resize((w, h), resample)
ImageResize(img, w, h, resample) ==
    IF ~CanLoad(img) THEN Raise("pil")
    ELSE IF w = img.w /\ h = img.h THEN ImageCopy(img)
    ELSE IF w < 1 \/ h < 1 \/ Empty(img) THEN Raise("pil")
    ELSE Ok(Derived(img, w, h, img.mode, 1))

\* Image.new(mode, size, color) with a three-element color: the single- and
\* two-band modes take an int or a shorter tuple only
AcceptsRGBColor(mode) == mode \in {"RGB", "RGBA", "P"}

\* Image.filter with a built-in kernel, a rank filter or a blur
CanFilter(img) == CanLoad(img) /\ img.mode # "P" /\ ~Empty(img)

\* Image.blend, under every ImageEnhance enhancer
CanBlend(img) == CanLoad(img) /\ img.mode # "P" /\ ~Empty(img)

-----------------------------------------------------------------------------
(* tools/Picture.py: every method reads Picture.image (image) through      *)
(* _ensure_image and returns a new image or raises.  Factors are given in  *)
(* hundredths (100 is 1.0).                                                *)

\* the axes an image is mirrored along after one more transpose along axis
Mirrored(flips, axis) ==
    IF axis \in flips THEN flips \ {axis} ELSE flips \cup {axis}

\* Picture._ensure_image
EnsureImage(image) == image # None

\* Picture.thumbnail(max_size)
PictureThumbnail(image, max_w, max_h) ==
    IF ~EnsureImage(image) THEN Raise("not_set")
    ELSE ThumbnailOfCopy(image, max_w, max_h)

\* Picture.resize(new_size, keep_aspect): with keep_aspect the new size is
\* int(original * scale) for scale = min(target_w / w, target_h / h)
PictureResizeSize(w, h, target_w, target_h) ==
    IF target_w * h <= target_h * w
    THEN <<(w * target_w) \div w, (h * target_w) \div w>>
    ELSE <<(w * target_h) \div h, (h * target_h) \div h>>

PictureResize(image, width, height, keep_aspect) ==
    IF ~EnsureImage(image) THEN Raise("not_set")
    ELSE IF keep_aspect
         THEN IF Empty(image) THEN Raise("pil")
              ELSE LET size == PictureResizeSize(image.w, image.h, width, height)
                   IN  ImageResize(image, size[1], size[2], "lanczos")
         ELSE ImageResize(image, width, height, "lanczos")

\* Picture.rotate(angle, expand, fill_color), for angles 0 <= angle < 360 that
\* are 0, 90, 180, 270 (a copy or a transpose) or, without expand, any other
\* (an affine transform onto Image.new(mode, size, fill_color))
PictureRotate(image, angle, expand, fill_len) ==
    IF ~EnsureImage(image) THEN Raise("not_set")
    ELSE IF angle = 0 THEN ImageCopy(image)
    ELSE IF angle = 180
         THEN Ok(Derived(image, image.w, image.h, image.mode, 1))
    ELSE IF angle \in {90, 270} /\ (expand \/ image.w = image.h)
         THEN Ok(Derived(image, image.h, image.w, image.mode, 1))
    ELSE IF fill_len = 3 /\ ~AcceptsRGBColor(image.mode) THEN Raise("pil")
    ELSE Ok(Derived(image, image.w, image.h, image.mode, 1))

\* Picture.crop(box): Image.crop refuses right < left and bottom < top only
PictureCrop(image, left, top, right, bottom) ==
    IF ~EnsureImage(image) THEN Raise("not_set")
    ELSE IF right < left \/ bottom < top THEN Raise("pil")
    ELSE Ok(Derived(image, right - left, bottom - top, image.mode,
                    1))

\* CropCenterBox with the offsets rounded up
CropCenterBoxRoundedUp(img_width, img_height, width, height) ==
    LET left == (img_width - width + 1) \div 2
        top  == (img_height - height + 1) \div 2
    IN  [left |-> left, top |-> top, right |-> left + width, bottom |-> top + height]

\* the box Picture.crop_center computes: floor division, as Python's //
CropCenterBox(img_width, img_height, width, height) ==
    LET left == (img_width - width) \div 2
        top  == (img_height - height) \div 2
    IN  [left |-> left, top |-> top, right |-> left + width, bottom |-> top + height]

\* Picture.crop_center(width, height)
PictureCropCenter(image, width, height) ==
    IF ~EnsureImage(image) THEN Raise("not_set")
    ELSE LET box == CropCenterBox(image.w, image.h, width, height)
         IN  PictureCrop(image, box.left, box.top, box.right, box.bottom)

\* Picture.grayscale
PictureGrayscale(image) ==
    IF ~EnsureImage(image) THEN Raise("not_set")
    ELSE Ok(Derived(image, image.w, image.h, "L", 1))

\* Picture.art_effect(effect_type)
PictureArtEffect(image, effect_type) ==
    IF ~EnsureImage(image) THEN Raise("not_set")
    ELSE IF effect_type = "poster"
         THEN Ok(Derived(image, image.w, image.h, "RGB", 1))
    ELSE IF effect_type = "sketch"
         THEN IF Empty(image) THEN Raise("pil")
              ELSE Ok(Derived(image, image.w, image.h, "L", 1))
    ELSE IF effect_type = "oil_paint"
         THEN IF ~CanFilter(image) THEN Raise("pil")
              ELSE Ok(Derived(image, image.w, image.h, image.mode, 1))
    ELSE IF effect_type = "cartoon"
         THEN IF Empty(image) THEN Raise("pil")
              ELSE Ok(Derived(image, image.w, image.h, "RGB", 1))
    ELSE Raise("unknown_effect")

\* Picture.white_balance(method): a method other than auto and gray_world
\* skips the gains and returns the RGB conversion
PictureWhiteBalance(image, method) ==
    IF ~EnsureImage(image) THEN Raise("not_set")
    ELSE IF Empty(image) THEN Raise("pil")
    ELSE IF method \in {"auto", "gray_world"}
         THEN Ok(Derived(image, image.w, image.h, "RGB", 1))
    ELSE Ok(Derived(image, image.w, image.h, "RGB", 1))

\* Picture.brightness, contrast, saturation, sharpen: ImageEnhance, whose
\* enhance(1.0) is Image.blend at alpha 1.0, a copy of the source
PictureEnhance(image, enhancer, factor) ==
    IF ~EnsureImage(image) THEN Raise("not_set")
    ELSE IF ~CanBlend(image) THEN Raise("pil")
    ELSE IF factor = 100 THEN ImageCopy(image)
    ELSE Ok(Derived(image, image.w, image.h, image.mode, 1))

\* Picture.blur(radius, blur_type): ImageFilter.Kernel takes sizes (3, 3) and
\* (5, 5) only, so the motion branch raises for every radius
PictureBlur(image, radius, blur_type) ==
    IF ~EnsureImage(image) THEN Raise("not_set")
    ELSE IF blur_type = "motion" THEN Raise("pil")
    ELSE IF ~CanFilter(image) THEN Raise("pil")
    ELSE Ok(Derived(image, image.w, image.h, image.mode,
                    1))

\* PictureFlip with the vertical direction mirroring both axes
PictureFlipTurning(image, direction) ==
    IF ~EnsureImage(image) THEN Raise("not_set")
    ELSE IF direction = "horizontal"
         THEN Ok([Derived(image, image.w, image.h, image.mode, 0)
                     EXCEPT !.flips = Mirrored(image.flips, "horizontal")])
    ELSE IF direction = "vertical"
         THEN Ok([Derived(image, image.w, image.h, image.mode, 1)
                     EXCEPT !.flips = Mirrored(image.flips, "horizontal")])
    ELSE Raise("unknown_direction")

\* Picture.flip(direction): Image.transpose(FLIP_LEFT_RIGHT) or
\* (FLIP_TOP_BOTTOM), a new image with every row or column order reversed
PictureFlip(image, direction) ==
    IF ~EnsureImage(image) THEN Raise("not_set")
    ELSE IF direction \in {"horizontal", "vertical"}
         THEN Ok([Derived(image, image.w, image.h, image.mode, 0)
                     EXCEPT !.flips = Mirrored(image.flips, direction)])
    ELSE Raise("unknown_direction")

\* Picture.invert
PictureInvert(image) ==
    IF ~EnsureImage(image) THEN Raise("not_set")
    ELSE Ok(Derived(image, image.w, image.h,
                    IF image.mode = "RGBA" THEN "RGBA" ELSE "RGB", 1))

\* Picture.sepia(intensity)
PictureSepia(image, intensity) ==
    IF ~EnsureImage(image) THEN Raise("not_set")
    ELSE IF Empty(image) THEN Raise("pil")
    ELSE Ok(Derived(image, image.w, image.h, "RGB", 1))

\* Picture.edge_detect(method): an unknown method falls back to FIND_EDGES
PictureEdgeDetect(image, method) ==
    IF ~EnsureImage(image) THEN Raise("not_set")
    ELSE IF ~CanFilter(image) THEN Raise("pil")
    ELSE Ok(Derived(image, image.w, image.h, image.mode,
                    1))

\* Picture.emboss
PictureEmboss(image) ==
    IF ~EnsureImage(image) THEN Raise("not_set")
    ELSE IF ~CanFilter(image) THEN Raise("pil")
    ELSE Ok(Derived(image, image.w, image.h, image.mode, 1))

\* Picture.pixelate(pixel_size): down to (w // pixel_size, h // pixel_size)
\* and back up, both NEAREST
PicturePixelate(image, pixel_size) ==
    IF ~EnsureImage(image) THEN Raise("not_set")
    ELSE IF pixel_size = 0 THEN Raise("pil")
    ELSE LET small == ImageResize(image, image.w \div pixel_size,
                                  image.h \div pixel_size, "nearest")
         IN  IF small.raised # "" THEN small
             ELSE ImageResize(small.img, image.w, image.h, "nearest")

\* Picture.vignette(strength)
PictureVignette(image, strength) ==
    IF ~EnsureImage(image) THEN Raise("not_set")
    ELSE Ok(Derived(image, image.w, image.h, "RGB", 1))

\* Picture.hue_shift(degrees)
PictureHueShift(image, degrees) ==
    IF ~EnsureImage(image) THEN Raise("not_set")
    ELSE IF Empty(image) THEN Raise("pil")
    ELSE Ok(Derived(image, image.w, image.h, "RGB", 1))

\* Picture.add_border(border_width, color): ImageOps.expand onto
\* Image.new(mode, size, color)
PictureAddBorder(image, border_width, color_len) ==
    IF ~EnsureImage(image) THEN Raise("not_set")
    ELSE IF color_len = 3 /\ ~AcceptsRGBColor(image.mode) THEN Raise("pil")
    ELSE Ok(Derived(image, image.w + 2 * border_width, image.h + 2 * border_width,
                    image.mode, 1))

\* Picture.auto_contrast(cutoff): ImageOps.autocontrast has no palette support
PictureAutoContrast(image, cutoff) ==
    IF ~EnsureImage(image) THEN Raise("not_set")
    ELSE IF image.mode = "P" \/ Empty(image) THEN Raise("pil")
    ELSE Ok(Derived(image, image.w, image.h, image.mode, 1))

\* Picture.equalize: ImageOps.equalize converts a palette image to RGB
PictureEqualize(image) ==
    IF ~EnsureImage(image) THEN Raise("not_set")
    ELSE IF Empty(image) THEN Raise("pil")
    ELSE Ok(Derived(image, image.w, image.h,
                    IF image.mode = "P" THEN "RGB" ELSE image.mode, 1))

\* ColorTemperatureGains with the adjustment held at 20 percent
ColorTemperatureGainsCapped(temperature) ==
    IF temperature < 6500
    THEN LET twice == IF temperature < 2000 THEN 9000 ELSE 2 * (6500 - temperature)
         IN  [den |-> 45000, red |-> 45000 + twice, green |-> 45000,
              blue |-> 45000 - twice]
    ELSE LET twice == IF temperature > 10000 THEN 7000 ELSE 2 * (temperature - 6500)
         IN  [den |-> 35000, red |-> 35000 - twice, green |-> 35000,
              blue |-> 35000 + twice]

\* the factors Picture.color_temperature multiplies the R, G and B planes
\* by, as fractions red / den, green / den, blue / den: below 6500
\* factor = (6500 - temperature) / 4500, R *= 1 + factor * 0.2 and
\* B *= 1 - factor * 0.2; from 6500 on factor = (temperature - 6500) / 3500
\* with the signs exchanged
ColorTemperatureGains(temperature) ==
    IF temperature < 6500
    THEN [den |-> 45000, red |-> 45000 + 2 * (6500 - temperature), green |-> 45000,
          blue |-> 45000 - 2 * (6500 - temperature)]
    ELSE [den |-> 35000, red |-> 35000 - 2 * (temperature - 6500), green |-> 35000,
          blue |-> 35000 + 2 * (temperature - 6500)]

\* one (R, G, B) sample after the multiplication, np.clip(..., 0, 255) and
\* astype(np.uint8)
ColorTemperatureSample(rgb, temperature) ==
    LET gains == ColorTemperatureGains(temperature)
        Clip(v) == IF v < 0 THEN 0 ELSE IF v > 255 * gains.den THEN 255
                   ELSE v \div gains.den
    IN  <<Clip(rgb[1] * gains.red), Clip(rgb[2] * gains.green),
          Clip(rgb[3] * gains.blue)>>

\* Picture.color_temperature(temperature)
PictureColorTemperature(image, temperature) ==
    IF ~EnsureImage(image) THEN Raise("not_set")
    ELSE IF Empty(image) THEN Raise("pil")
    ELSE Ok(Derived(image, image.w, image.h, "RGB", 1))

-----------------------------------------------------------------------------
(* The files and payloads a request can name *)

\* what a path or a base64 payload holds: a path may not exist, the bytes may
\* be no image (Image.open raises), or an image whose data is cut short
\* (Image.open succeeds, load() raises)
Sources ==
    { [name |-> "photo",     exists |-> TRUE,  image |-> TRUE,  ok |-> TRUE,
       w |-> 2000, h |-> 1000, mode |-> "RGB",  format |-> "JPEG"],
      [name |-> "logo",      exists |-> TRUE,  image |-> TRUE,  ok |-> TRUE,
       w |-> 40,   h |-> 30,   mode |-> "RGBA", format |-> "PNG"],
      [name |-> "icon",      exists |-> TRUE,  image |-> TRUE,  ok |-> TRUE,
       w |-> 16,   h |-> 16,   mode |-> "P",    format |-> "GIF"],
      [name |-> "strip",     exists |-> TRUE,  image |-> TRUE,  ok |-> TRUE,
       w |-> 1,    h |-> 2000, mode |-> "L",    format |-> "PNG"],
      [name |-> "truncated", exists |-> TRUE,  image |-> TRUE,  ok |-> FALSE,
       w |-> 40,   h |-> 30,   mode |-> "RGB",  format |-> "PNG"],
      [name |-> "garbage",   exists |-> TRUE,  image |-> FALSE, ok |-> FALSE,
       w |-> 0,    h |-> 0,    mode |-> "",     format |-> ""],
      [name |-> "missing",   exists |-> FALSE, image |-> FALSE, ok |-> FALSE,
       w |-> 0,    h |-> 0,    mode |-> "",     format |-> ""] }

\* Image.open: a lazily opened image carrying the file's format
ImageOpen(f) ==
    [id |-> 0, w |-> f.w, h |-> f.h, mode |-> f.mode, format |-> f.format,
     ok |-> f.ok, src |-> f.name, edits |-> 0, flips |-> {}]

\* FileHandler.load_file(file_path)
FileHandlerLoadFile(f) ==
    IF ~f.exists THEN Raise("not_found")
    ELSE IF ~f.image THEN Raise("io")
    ELSE Ok(ImageOpen(f))

\* FileHandler.save_as(output_path, image, quality=quality): TRUE when the
\* image is written; every failure of Image.save is re-raised as IOError
FileHandlerSaveAs(ext, image) ==
    /\ CanLoad(image)
    /\ ~Empty(image)
    /\ ext \in {"jpg", "png"}
    /\ ext = "jpg" => image.mode \in {"L", "RGB", "RGBA"}

-----------------------------------------------------------------------------
(* IPCServer helpers *)

NoInfo == [width |-> 0, height |-> 0, mode |-> "", format |-> ""]

NoPreview == [encoding |-> "", quality |-> 0, pixels |-> Pixels(None)]

\* IPCServer._get_image_info
GetImageInfo(img) ==
    [width |-> img.w, height |-> img.h, mode |-> img.mode,
     format |-> IF img.format = "None" THEN "Unknown" ELSE img.format]

\* IPCServer._create_preview(img): img itself when it fits, else a reduced copy
CreatePreview(img) ==
    IF img.w <= PreviewMaxSize /\ img.h <= PreviewMaxSize THEN Ok(img)
    ELSE LET new_width  == IF img.w >= img.h THEN PreviewMaxSize
                           ELSE (img.w * PreviewMaxSize) \div img.h
             new_height == IF img.w >= img.h THEN (img.h * PreviewMaxSize) \div img.w
                           ELSE PreviewMaxSize
         IN  ThumbnailOfCopy(img, new_width, new_height)

\* ImageToBase64 saving in the format it is given
ImageToBase64InFormat(img, format, quality) ==
    IF ~CanLoad(img) \/ Empty(img) THEN [raised |-> "pil", data |-> NoPreview]
    ELSE [raised |-> "",
          data |-> [encoding |-> format, quality |-> quality,
                    pixels |-> [Pixels(img) EXCEPT !.mode = "RGB"]]]

\* IPCServer._image_to_base64(img, format="PNG", quality=75): save_format is
\* always "JPEG" and the format argument is not used; an image with alpha or
\* a palette is pasted onto a white RGB background, any other converted to RGB
ImageToBase64(img, format, quality) ==
    IF ~CanLoad(img) \/ Empty(img) THEN [raised |-> "pil", data |-> NoPreview]
    ELSE [raised |-> "",
          data |-> [encoding |-> "JPEG", quality |-> quality,
                    pixels |-> [Pixels(img) EXCEPT !.mode = "RGB"]]]

\* Failure with an empty info object beside the error
FailureCarryingInfo(error) ==
    [success |-> FALSE, error |-> error, keys |-> {"success", "error", "info"},
     info |-> NoInfo, preview |-> NoPreview, actions |-> {}]

\* the response objects handle_request builds
Failure(error) ==
    [success |-> FALSE, error |-> error, keys |-> {"success", "error"},
     info |-> NoInfo, preview |-> NoPreview, actions |-> {}]

Success(keys, info, preview) ==
    [success |-> TRUE, error |-> "", keys |-> {"success"} \cup keys,
     info |-> info, preview |-> preview, actions |-> {}]

\* InfoAndPreview with the info taken from the preview image
InfoOfPreview(img) ==
    LET preview == CreatePreview(img)
        encoded == ImageToBase64(preview.img, "PNG", PreviewQuality)
    IN  IF preview.raised # "" THEN Failure(preview.raised)
        ELSE IF encoded.raised # "" THEN Failure(encoded.raised)
        ELSE Success({"message", "info", "preview"}, GetImageInfo(preview.img),
                     encoded.data)

\* "info": self._get_image_info(self.current_image),
\* "preview": self._image_to_base64(self._create_preview(self.current_image))
InfoAndPreview(img) ==
    LET preview == CreatePreview(img)
        encoded == ImageToBase64(preview.img, "PNG", PreviewQuality)
    IN  IF preview.raised # "" THEN Failure(preview.raised)
        ELSE IF encoded.raised # "" THEN Failure(encoded.raised)
        ELSE Success({"message", "info", "preview"}, GetImageInfo(img), encoded.data)

\* the objects the server holds
Live == {current_image, original_image, picture_image} \ {None}

\* the server's state after a request, and what the request wrote
Outcome(cur, orig, pic, resp, prints) ==
    [current |-> cur, original |-> orig, picture |-> pic, response |-> resp,
     prints |-> prints]

Unchanged(resp, prints) ==
    Outcome(current_image, original_image, picture_image, resp, prints)

-----------------------------------------------------------------------------
(* IPCServer.handle_request, one operator per branch.  A request is a      *)
(* record: its action, the names of the parameters it carries (has) and    *)
(* their values.  Each operator gives the Outcome of the branch; prints    *)
(* counts the lines the called methods print() to sys.stdout.              *)

\* request.get(name): None when the parameter is absent
Has(req, name) == name \in req.has

WithId(img, live) == [img EXCEPT !.id = NewId(live)]

\* AdoptLoaded keeping a backup that already exists
AdoptLoadedKeepingBackup(opened, prints) ==
    LET cur    == WithId(opened, Live)
        backup == ImageCopy(cur)
        orig   == IF original_image # None THEN original_image
                  ELSE WithId(backup.img, Live \cup {cur})
    IN  IF backup.raised # ""
        THEN Outcome(cur, original_image, picture_image, Failure(backup.raised), prints)
        ELSE Outcome(cur, orig, cur, InfoAndPreview(cur), prints)

\* AdoptLoaded dropping the session's images when the backup copy fails
AdoptLoadedClearingOnFailure(opened, prints) ==
    LET cur    == WithId(opened, Live)
        backup == ImageCopy(cur)
        orig   == WithId(backup.img, Live \cup {cur})
    IN  IF backup.raised # ""
        THEN Outcome(None, None, None, Failure(backup.raised), prints)
        ELSE Outcome(cur, orig, cur, InfoAndPreview(cur), prints)

\* the load branches from the point where the image has been opened:
\*   self.current_image = <opened>
\*   self.original_image = self.current_image.copy()
\*   self.picture.set_image(self.current_image)
\*   preview, info, return
AdoptLoaded(opened, prints) ==
    LET cur    == WithId(opened, Live)
        backup == ImageCopy(cur)
        orig   == WithId(backup.img, Live \cup {cur})
    IN  IF backup.raised # ""
        THEN Outcome(cur, original_image, picture_image, Failure(backup.raised), prints)
        ELSE Outcome(cur, orig, cur, InfoAndPreview(cur), prints)

\* action == "load_file"
HandleLoadFile(req) ==
    IF ~Has(req, "file_path") THEN Unchanged(Failure("missing_param"), 0)
    ELSE LET opened == FileHandlerLoadFile(req.file_path) IN
         IF opened.raised # "" THEN Unchanged(Failure(opened.raised), 0)
         ELSE AdoptLoaded(opened.img, 4)

\* IPCServer._base64_to_image
Base64ToImage(payload) ==
    IF ~payload.image THEN Raise("pil") ELSE Ok(ImageOpen(payload))

\* action == "load_base64"
HandleLoadBase64(req) ==
    IF ~Has(req, "base64") THEN Unchanged(Failure("missing_param"), 0)
    ELSE LET opened == Base64ToImage(req.base64) IN
         IF opened.raised # "" THEN Unchanged(Failure(opened.raised), 0)
         ELSE AdoptLoaded(opened.img, 0)

\* action == "save_file"
HandleSaveFile(req) ==
    IF ~Has(req, "output_path") THEN Unchanged(Failure("missing_param"), 0)
    ELSE IF current_image = None THEN Unchanged(Failure("no_image"), 0)
    ELSE IF ~FileHandlerSaveAs(req.output_path, current_image)
         THEN Unchanged(Failure("io"), 0)
    ELSE Unchanged(Success({"message", "path"}, NoInfo, NoPreview), 1)

\* get_base64 keeping the flattened image it encoded as current
HandleGetBase64Flattening(req) ==
    IF current_image = None THEN Unchanged(Failure("no_image"), 0)
    ELSE LET format  == IF Has(req, "format") THEN req.format ELSE "PNG"
             encoded == ImageToBase64(current_image, format, PreviewQuality) IN
         IF encoded.raised # "" THEN Unchanged(Failure(encoded.raised), 0)
         ELSE Outcome([current_image EXCEPT !.mode = "RGB"], original_image,
                      picture_image,
                      Success({"base64", "info"}, GetImageInfo(current_image),
                              encoded.data), 0)

\* action == "get_base64"
HandleGetBase64(req) ==
    IF current_image = None THEN Unchanged(Failure("no_image"), 0)
    ELSE LET format  == IF Has(req, "format") THEN req.format ELSE "PNG"
             encoded == ImageToBase64(current_image, format, PreviewQuality) IN
         IF encoded.raised # "" THEN Unchanged(Failure(encoded.raised), 0)
         ELSE Unchanged(Success({"base64", "info"}, GetImageInfo(current_image),
                                encoded.data), 0)

\* action == "get_info"
HandleGetInfo(req) ==
    IF current_image = None THEN Unchanged(Failure("no_image"), 0)
    ELSE Unchanged(Success({"info"}, GetImageInfo(current_image), NoPreview), 0)

\* action == "batch_load", with FileHandler.batch_load
HandleBatchLoad(req) ==
    IF ~Has(req, "folder_path") THEN Unchanged(Failure("missing_param"), 0)
    ELSE IF ~req.folder_path THEN Unchanged(Failure("not_dir"), 0)
    ELSE Unchanged(Success({"files", "count"}, NoInfo, NoPreview), 1)

\* Transform with the preview made of the result itself, not of a copy
TransformShrinkingResult(absent, result) ==
    IF absent THEN Unchanged(Failure("missing_param"), 0)
    ELSE IF current_image = None THEN Unchanged(Failure("no_image"), 0)
    ELSE IF result.raised # "" THEN Unchanged(Failure(result.raised), 0)
    ELSE LET shrunk == CreatePreview(result.img)
             cur == WithId(IF shrunk.raised = "" THEN shrunk.img ELSE result.img,
                           Live)
         IN  Outcome(cur, original_image, cur, InfoAndPreview(cur), 1)

\* the tail every transform branch shares, given whether a required
\* parameter is absent and the outcome of the Picture method:
\*   if self.current_image is None: return {"success": False, ...}
\*   self.current_image = self.picture.<method>(...)
\*   self.picture.set_image(self.current_image)
\*   return {"success": True, "message", "info", "preview"}
Transform(absent, result) ==
    IF absent THEN Unchanged(Failure("missing_param"), 0)
    ELSE IF current_image = None THEN Unchanged(Failure("no_image"), 0)
    ELSE IF result.raised # "" THEN Unchanged(Failure(result.raised), 0)
    ELSE LET cur == WithId(result.img, Live)
         IN  Outcome(cur, original_image, cur, InfoAndPreview(cur), 1)

\* request.get(name, default)
Get(req, name, default) == IF Has(req, name) THEN req[name] ELSE default

\* action == "thumbnail"
HandleThumbnail(req) ==
    Transform(FALSE, PictureThumbnail(picture_image,
                                      Get(req, "max_width", ThumbnailDefault),
                                      Get(req, "max_height", ThumbnailDefault)))

\* action == "resize": `not width or not height` also takes 0 for absent
HandleResize(req) ==
    LET width  == Get(req, "width", 0)
        height == Get(req, "height", 0)
    IN  Transform(width = 0 \/ height = 0,
                  PictureResize(picture_image, width, height,
                                Get(req, "keep_aspect", FALSE)))

\* action == "rotate": angle defaults to 0, fill_color to [255, 255, 255]
HandleRotate(req) ==
    Transform(FALSE, PictureRotate(picture_image, Get(req, "angle", 0),
                                   Get(req, "expand", TRUE), 3))

\* action == "crop": left and top default to 0
HandleCrop(req) ==
    Transform(~Has(req, "right") \/ ~Has(req, "bottom"),
              PictureCrop(picture_image, Get(req, "left", 0), Get(req, "top", 0),
                          Get(req, "right", 0), Get(req, "bottom", 0)))

\* action == "crop_center"
HandleCropCenter(req) ==
    LET width  == Get(req, "width", 0)
        height == Get(req, "height", 0)
    IN  Transform(width = 0 \/ height = 0,
                  PictureCropCenter(picture_image, width, height))

\* action == "grayscale"
HandleGrayscale(req) == Transform(FALSE, PictureGrayscale(picture_image))

\* action == "art_effect": effect_type defaults to "poster"
HandleArtEffect(req) ==
    Transform(FALSE, PictureArtEffect(picture_image, Get(req, "effect_type", "poster")))

\* action == "white_balance"
HandleWhiteBalance(req) ==
    Transform(FALSE, PictureWhiteBalance(picture_image, Get(req, "method", "auto")))

\* action == "brightness"
HandleBrightness(req) ==
    Transform(FALSE, PictureEnhance(picture_image, "brightness", Get(req, "factor", 100)))

\* action == "contrast"
HandleContrast(req) ==
    Transform(FALSE, PictureEnhance(picture_image, "contrast", Get(req, "factor", 100)))

\* action == "saturation"
HandleSaturation(req) ==
    Transform(FALSE, PictureEnhance(picture_image, "saturation", Get(req, "factor", 100)))

\* action == "sharpen"
HandleSharpen(req) ==
    Transform(FALSE, PictureEnhance(picture_image, "sharpen", Get(req, "factor", 100)))

\* action == "blur"
HandleBlur(req) ==
    Transform(FALSE, PictureBlur(picture_image, Get(req, "radius", 2),
                                 Get(req, "blur_type", "gaussian")))

\* action == "flip"
HandleFlip(req) ==
    Transform(FALSE, PictureFlip(picture_image, Get(req, "direction", "horizontal")))

\* action == "invert"
HandleInvert(req) == Transform(FALSE, PictureInvert(picture_image))

\* action == "sepia"
HandleSepia(req) ==
    Transform(FALSE, PictureSepia(picture_image, Get(req, "intensity", 100)))

\* action == "edge_detect"
HandleEdgeDetect(req) ==
    Transform(FALSE, PictureEdgeDetect(picture_image, Get(req, "method", "default")))

\* action == "emboss"
HandleEmboss(req) == Transform(FALSE, PictureEmboss(picture_image))

\* action == "pixelate"
HandlePixelate(req) ==
    Transform(FALSE, PicturePixelate(picture_image, Get(req, "pixel_size", PixelSizeDefault)))

\* action == "vignette"
HandleVignette(req) ==
    Transform(FALSE, PictureVignette(picture_image, Get(req, "strength", 50)))

\* action == "hue_shift"
HandleHueShift(req) ==
    Transform(FALSE, PictureHueShift(picture_image, Get(req, "degrees", 0)))

\* action == "add_border": color defaults to [0, 0, 0]
HandleAddBorder(req) ==
    Transform(FALSE, PictureAddBorder(picture_image,
                                      Get(req, "border_width", BorderWidthDefault), 3))

\* action == "auto_contrast"
HandleAutoContrast(req) ==
    Transform(FALSE, PictureAutoContrast(picture_image, Get(req, "cutoff", 0)))

\* action == "equalize"
HandleEqualize(req) == Transform(FALSE, PictureEqualize(picture_image))

\* action == "color_temperature"
HandleColorTemperature(req) ==
    Transform(FALSE, PictureColorTemperature(picture_image,
                                             Get(req, "temperature", 6500)))

\* HandleReset copying current_image instead of original_image
HandleResetFromCurrent(req) ==
    IF original_image = None THEN Unchanged(Failure("no_original"), 0)
    ELSE LET copy == ImageCopy(current_image) IN
         IF copy.raised # "" THEN Unchanged(Failure(copy.raised), 0)
         ELSE LET cur == WithId(copy.img, Live)
              IN  Outcome(cur, original_image, cur, InfoAndPreview(cur), 0)

\* action == "reset"
HandleReset(req) ==
    IF original_image = None THEN Unchanged(Failure("no_original"), 0)
    ELSE LET cur == WithId(ImageCopy(original_image).img, Live)
         IN  Outcome(cur, original_image, cur, InfoAndPreview(cur), 0)

\* the names under the four groups of the `actions` dict of list_actions
ListedActions ==
    {"load_file", "load_base64", "save_file", "get_base64", "get_info",
     "batch_load", "reset",
     "thumbnail", "resize", "rotate", "crop", "crop_center", "flip",
     "grayscale", "brightness", "contrast", "saturation", "white_balance",
     "color_temperature", "hue_shift", "auto_contrast", "equalize", "invert",
     "sepia",
     "blur", "sharpen", "edge_detect", "emboss", "pixelate", "vignette",
     "art_effect", "add_border"}

\* action == "list_actions"
HandleListActions(req) ==
    Unchanged([Success({"actions"}, NoInfo, NoPreview)
                  EXCEPT !.actions = ListedActions], 0)

\* action == "ping"
HandlePing(req) == Unchanged(Success({"message", "status"}, NoInfo, NoPreview), 0)

\* else: an action no branch names
\*   return {"success": False, "error": f"未知的 action: {action}"}
HandleUnknown(req) == Unchanged(Failure("unknown action: " \o req.action), 0)

-----------------------------------------------------------------------------
(* The requests the caller sends: per action, the parameter sets tried *)

Req(action) == [action |-> action, has |-> {}]

LoadFileRequests ==
    {Req("load_file")} \cup
    {[action |-> "load_file", has |-> {"file_path"}, file_path |-> f] : f \in Sources}

LoadBase64Requests ==
    {Req("load_base64")} \cup
    {[action |-> "load_base64", has |-> {"base64"}, base64 |-> f] :
        f \in {g \in Sources : g.exists}}

GetBase64Requests ==
    {Req("get_base64"),
     [action |-> "get_base64", has |-> {"format"}, format |-> "WEBP"]}

SaveFileRequests ==
    {Req("save_file"),
     [action |-> "save_file", has |-> {"output_path", "quality"},
      output_path |-> "jpg", quality |-> 50]} \cup
    {[action |-> "save_file", has |-> {"output_path"}, output_path |-> e] :
        e \in {"jpg", "png", "xyz"}}

BatchLoadRequests ==
    {Req("batch_load")} \cup
    {[action |-> "batch_load", has |-> {"folder_path"}, folder_path |-> d] :
        d \in BOOLEAN}

ThumbnailRequests ==
    {Req("thumbnail"),
     [action |-> "thumbnail", has |-> {"max_width", "max_height"},
      max_width |-> 16, max_height |-> 16]}

ResizeRequests ==
    {Req("resize"),
     [action |-> "resize", has |-> {"width"}, width |-> 500],
     [action |-> "resize", has |-> {"width", "height"}, width |-> 0, height |-> 500],
     [action |-> "resize", has |-> {"width", "height"}, width |-> 1, height |-> 2000],
     [action |-> "resize", has |-> {"width", "height"}, width |-> 500, height |-> 500],
     [action |-> "resize", has |-> {"width", "height", "keep_aspect"},
      width |-> 500, height |-> 500, keep_aspect |-> TRUE],
     [action |-> "resize", has |-> {"width", "height", "keep_aspect"},
      width |-> 9, height |-> 9, keep_aspect |-> TRUE]}

RotateRequests ==
    {Req("rotate"),
     [action |-> "rotate", has |-> {"angle"}, angle |-> 90],
     [action |-> "rotate", has |-> {"angle", "expand"}, angle |-> 45, expand |-> FALSE]}

CropRequests ==
    {Req("crop"),
     [action |-> "crop", has |-> {"left", "top", "right"},
      left |-> 0, top |-> 0, right |-> 10],
     [action |-> "crop", has |-> {"right", "bottom"}, right |-> 10, bottom |-> 10],
     [action |-> "crop", has |-> {"left", "top", "right", "bottom"},
      left |-> 5, top |-> 5, right |-> 5, bottom |-> 8],
     [action |-> "crop", has |-> {"left", "top", "right", "bottom"},
      left |-> 8, top |-> 0, right |-> 4, bottom |-> 4]}

CropCenterRequests ==
    {Req("crop_center"),
     [action |-> "crop_center", has |-> {"height"}, height |-> 10],
     [action |-> "crop_center", has |-> {"width", "height"}, width |-> 10, height |-> 10],
     [action |-> "crop_center", has |-> {"width", "height"}, width |-> 7, height |-> 5],
     [action |-> "crop_center", has |-> {"width", "height"},
      width |-> 3000, height |-> 3000]}

ArtEffectRequests ==
    {Req("art_effect")} \cup
    {[action |-> "art_effect", has |-> {"effect_type"}, effect_type |-> e] :
        e \in {"sketch", "oil_paint", "cartoon", "watercolor"}}

WhiteBalanceRequests ==
    {Req("white_balance"),
     [action |-> "white_balance", has |-> {"method"}, method |-> "tungsten"]}

FactorRequests(action) ==
    {Req(action), [action |-> action, has |-> {"factor"}, factor |-> 150]}

BlurRequests ==
    {Req("blur"),
     [action |-> "blur", has |-> {"blur_type"}, blur_type |-> "motion"]}

FlipRequests ==
    {Req("flip")} \cup
    {[action |-> "flip", has |-> {"direction"}, direction |-> d] :
        d \in {"vertical", "diagonal"}}

SepiaRequests ==
    {Req("sepia"), [action |-> "sepia", has |-> {"intensity"}, intensity |-> 50]}

EdgeDetectRequests ==
    {Req("edge_detect"),
     [action |-> "edge_detect", has |-> {"method"}, method |-> "sobel"]}

PixelateRequests ==
    {Req("pixelate"),
     [action |-> "pixelate", has |-> {"pixel_size"}, pixel_size |-> 1],
     [action |-> "pixelate", has |-> {"pixel_size"}, pixel_size |-> 50]}

HueShiftRequests ==
    {Req("hue_shift"),
     [action |-> "hue_shift", has |-> {"degrees"}, degrees |-> 180]}

ColorTemperatureRequests ==
    {Req("color_temperature"),
     [action |-> "color_temperature", has |-> {"temperature"}, temperature |-> 2000]}
    \cup {[action |-> "color_temperature", has |-> {"temperature"}, temperature |-> t] :
             t \in {1000, 4250, 10000, 30000}}

-----------------------------------------------------------------------------
(* IPCServer.run: one action per iteration of the loop *)

NoRequest == Req("")

NoResponse == [success |-> FALSE, error |-> "", keys |-> {},
               info |-> NoInfo, preview |-> NoPreview, actions |-> {}]

\* a sample of the image color_temperature works on
Probe == <<250, 100, 30>>

NoFlips == [direction |-> "", count |-> 0, before |-> Pixels(None), decoded |-> FALSE]

\* IPCServer.__init__, and run() up to the loop
Init ==
    /\ current_image = None
    /\ original_image = None
    /\ picture_image = None
    /\ buffer = FALSE
    /\ running = TRUE
    /\ exitCause = "none"
    /\ pc = "readline"
    /\ request = NoRequest
    /\ response = NoResponse
    /\ printed = 0
    /\ unanswered = 0
    /\ loads = 0
    /\ captured = Pixels(None)
    /\ transformed = FALSE
    /\ adjusted = <<>>
    /\ flipRun = NoFlips

\* readline returns a complete line: the loop is running and no unterminated
\* chunk came before (readline returns one only at the end of the input)
AtLine == running /\ pc = "readline" /\ ~buffer

IsLoad(req) == req.action \in {"load_file", "load_base64"}

TransformActions ==
    {"thumbnail", "resize", "rotate", "crop", "crop_center", "flip", "grayscale",
     "brightness", "contrast", "saturation", "white_balance", "color_temperature",
     "hue_shift", "auto_contrast", "equalize", "invert", "sepia", "blur", "sharpen",
     "edge_detect", "emboss", "pixelate", "vignette", "art_effect", "add_border"}

\* LoopContinues leaving the loop after a failure response
LoopStopsOnFailure(resp) == resp.success

\* after _send_response the loop goes round again whatever the response was:
\* `continue` after the JSON error, the end of the loop body after a handled
\* request and after run()'s own `except Exception`
LoopContinues(resp) == TRUE

\* Object identities matter only for which references share an object, so
\* after each request the live objects are renamed: 1 for current_image's,
\* 2 for original_image's when it is another object, 3 for Picture.image's
\* when it is a third
Renamed(img, first, second, fresh) ==
    IF img = None THEN None
    ELSE IF first # None /\ img.id = first.id THEN [img EXCEPT !.id = 1]
    ELSE IF second # None /\ img.id = second.id THEN [img EXCEPT !.id = 2]
    ELSE [img EXCEPT !.id = fresh]

\* request = json.loads(line); response = self.handle_request(request)
Respond(req, o) ==
    /\ AtLine
    /\ o.current.edits <= MaxEdits
    /\ current_image' = Renamed(o.current, None, None, 1)
    /\ original_image' = Renamed(o.original, o.current, None, 2)
    /\ picture_image' = Renamed(o.picture, o.current, o.original, 3)
    /\ pc' = "send"
    /\ request' = req
    /\ response' = o.response
    /\ printed' = o.prints
    /\ unanswered' = unanswered + 1
    /\ loads' = IF IsLoad(req) /\ o.response.success THEN Min(loads + 1, 2) ELSE loads
    /\ captured' = IF IsLoad(req) /\ o.response.success THEN Pixels(o.current)
                   ELSE captured
    /\ transformed' = IF IsLoad(req) /\ o.response.success THEN FALSE
                      ELSE IF req.action \in TransformActions /\ o.current # current_image
                           THEN TRUE
                      ELSE transformed
    /\ adjusted' = IF req.action = "color_temperature" /\ o.current # current_image
                   THEN ColorTemperatureSample(Probe, Get(req, "temperature", 6500))
                   ELSE <<>>
    /\ flipRun' = IF req.action # "flip" \/ o.current = current_image THEN NoFlips
                  ELSE LET direction == Get(req, "direction", "horizontal") IN
                       IF flipRun.count = 1 /\ flipRun.direction = direction
                       THEN [flipRun EXCEPT !.count = 2]
                       ELSE [direction |-> direction, count |-> 1,
                             before |-> Pixels(current_image),
                             decoded |-> CanLoad(current_image)]
    /\ UNCHANGED <<buffer, running, exitCause>>

\* self._send_response(response): one JSON line on sys.stdout; the iteration
\* ends and its locals are dead
SendResponse ==
    /\ running
    /\ pc = "send"
    /\ pc' = "readline"
    /\ running' = LoopContinues(response)
    /\ unanswered' = unanswered - 1
    /\ request' = NoRequest
    /\ response' = NoResponse
    /\ printed' = 0
    /\ adjusted' = <<>>
    /\ UNCHANGED <<current_image, original_image, picture_image, buffer,
                   exitCause, loads, captured, transformed, flipRun>>

LoadFile == \E req \in LoadFileRequests : Respond(req, HandleLoadFile(req))

LoadBase64 == \E req \in LoadBase64Requests : Respond(req, HandleLoadBase64(req))

SaveFile == \E req \in SaveFileRequests : Respond(req, HandleSaveFile(req))

GetBase64 == \E req \in GetBase64Requests : Respond(req, HandleGetBase64(req))

GetInfo == Respond(Req("get_info"), HandleGetInfo(Req("get_info")))

BatchLoad == \E req \in BatchLoadRequests : Respond(req, HandleBatchLoad(req))

Thumbnail == \E req \in ThumbnailRequests : Respond(req, HandleThumbnail(req))

Resize == \E req \in ResizeRequests : Respond(req, HandleResize(req))

Rotate == \E req \in RotateRequests : Respond(req, HandleRotate(req))

Crop == \E req \in CropRequests : Respond(req, HandleCrop(req))

CropCenter == \E req \in CropCenterRequests : Respond(req, HandleCropCenter(req))

Grayscale == Respond(Req("grayscale"), HandleGrayscale(Req("grayscale")))

ArtEffect == \E req \in ArtEffectRequests : Respond(req, HandleArtEffect(req))

WhiteBalance == \E req \in WhiteBalanceRequests : Respond(req, HandleWhiteBalance(req))

Brightness == \E req \in FactorRequests("brightness") : Respond(req, HandleBrightness(req))

Contrast == \E req \in FactorRequests("contrast") : Respond(req, HandleContrast(req))

Saturation == \E req \in FactorRequests("saturation") : Respond(req, HandleSaturation(req))

Sharpen == \E req \in FactorRequests("sharpen") : Respond(req, HandleSharpen(req))

Blur == \E req \in BlurRequests : Respond(req, HandleBlur(req))

Flip == \E req \in FlipRequests : Respond(req, HandleFlip(req))

Invert == Respond(Req("invert"), HandleInvert(Req("invert")))

Sepia == \E req \in SepiaRequests : Respond(req, HandleSepia(req))

EdgeDetect == \E req \in EdgeDetectRequests : Respond(req, HandleEdgeDetect(req))

Emboss == Respond(Req("emboss"), HandleEmboss(Req("emboss")))

Pixelate == \E req \in PixelateRequests : Respond(req, HandlePixelate(req))

Vignette == Respond(Req("vignette"), HandleVignette(Req("vignette")))

HueShift == \E req \in HueShiftRequests : Respond(req, HandleHueShift(req))

AddBorder == Respond(Req("add_border"), HandleAddBorder(Req("add_border")))

AutoContrast == Respond(Req("auto_contrast"), HandleAutoContrast(Req("auto_contrast")))

Equalize == Respond(Req("equalize"), HandleEqualize(Req("equalize")))

ColorTemperature ==
    \E req \in ColorTemperatureRequests : Respond(req, HandleColorTemperature(req))

Reset == Respond(Req("reset"), HandleReset(Req("reset")))

ListActions == Respond(Req("list_actions"), HandleListActions(Req("list_actions")))

Ping == Respond(Req("ping"), HandlePing(Req("ping")))

UnknownAction == Respond(Req("print"), HandleUnknown(Req("print")))

\* a line that json.loads refuses: the error response, then `continue`
MalformedLine ==
    Respond(Req("<not json>"), Unchanged(Failure("json"), 0))

\* NonObjectLine answering after the session's images were dropped
NonObjectLineDroppingSession ==
    Respond(Req("<not an object>"), Outcome(None, None, None, Failure("exception"), 0))

\* a line holding JSON that is no object: request.get raises outside
\* handle_request's try and run()'s `except Exception` answers
NonObjectLine ==
    Respond(Req("<not an object>"), Unchanged(Failure("exception"), 0))

\* a line of white space only: `if not line: continue`, nothing is written
BlankLine ==
    /\ AtLine
    /\ UNCHANGED vars

\* the input ends in a request with no newline after it: readline returns the
\* chunk, `buffer += chunk`, and `if not chunk.endswith('\n'): continue`
UnterminatedLine ==
    /\ AtLine
    /\ buffer' = TRUE
    /\ unanswered' = unanswered + 1
    /\ UNCHANGED <<current_image, original_image, picture_image, running,
                   exitCause, pc, request, response, printed, loads, captured,
                   transformed, adjusted, flipRun>>

\* readline returns '': `break`, whatever buffer holds
EndOfInput ==
    /\ running
    /\ pc = "readline"
    /\ running' = FALSE
    /\ exitCause' = "eof"
    /\ UNCHANGED <<current_image, original_image, picture_image, buffer, pc,
                   request, response, printed, unanswered, loads, captured,
                   transformed, adjusted, flipRun>>

\* KeyboardInterrupt while waiting in readline: `break`
Interrupt ==
    /\ running
    /\ pc = "readline"
    /\ running' = FALSE
    /\ exitCause' = "interrupt"
    /\ UNCHANGED <<current_image, original_image, picture_image, buffer, pc,
                   request, response, printed, unanswered, loads, captured,
                   transformed, adjusted, flipRun>>

Next ==
    \/ LoadFile \/ LoadBase64 \/ SaveFile \/ GetBase64 \/ GetInfo \/ BatchLoad
    \/ Thumbnail \/ Resize \/ Rotate \/ Crop \/ CropCenter \/ Grayscale
    \/ ArtEffect \/ WhiteBalance \/ Brightness \/ Contrast \/ Saturation
    \/ Sharpen \/ Blur \/ Flip \/ Invert \/ Sepia \/ EdgeDetect \/ Emboss
    \/ Pixelate \/ Vignette \/ HueShift \/ AddBorder \/ AutoContrast \/ Equalize
    \/ ColorTemperature \/ Reset \/ ListActions \/ Ping \/ UnknownAction
    \/ MalformedLine \/ NonObjectLine \/ SendResponse \/ BlankLine \/ UnterminatedLine
    \/ EndOfInput \/ Interrupt

Spec == Init /\ [][Next]_vars

-----------------------------------------------------------------------------
(* Properties.  They are read at pc = "send", where response is what        *)
(* handle_request returned for request and the session already holds the   *)
(* request's effect.                                                       *)

Answered == running /\ pc = "send"

MutatingActions == TransformActions \cup {"load_file", "load_base64", "reset"}

\* the file or payload a load request names
LoadSource(req) == IF req.action = "load_file" THEN req.file_path ELSE req.base64

\* the parameters the operation catalogue marks as required
Required(action) ==
    CASE action = "load_file"   -> {"file_path"}
      [] action = "load_base64" -> {"base64"}
      [] action = "save_file"   -> {"output_path"}
      [] action = "batch_load"  -> {"folder_path"}
      [] action = "resize"      -> {"width", "height"}
      [] action = "rotate"      -> {"angle"}
      [] action = "crop"        -> {"right", "bottom"}
      [] action = "crop_center" -> {"width", "height"}
      [] action = "art_effect"  -> {"effect_type"}
      [] OTHER                  -> {}

Omitted(req) == ~(Required(req.action) \subseteq req.has)

\* C1: a successful reset issued after a successful load leaves current
\* pixel-identical (size, mode, samples) to the image the most recent
\* successful load decoded, whatever ran in between.
C1_ResetRestoresLoaded ==
    (Answered /\ request.action = "reset" /\ response.success /\ loads > 0)
        => Pixels(current_image) = captured

\* a reset that succeeded after a transform had replaced current
C1_Witness ==
    /\ Answered /\ request.action = "reset" /\ response.success
    /\ loads > 0 /\ transformed

\* C2: while no load has succeeded, every transform request and reset
\* returns success = false with a no-image error (a missing-parameter error
\* is let through here: the claim is refuted without it).
C2_EmptyRejectsTransforms ==
    (Answered /\ loads = 0 /\ request.action \in TransformActions \cup {"reset"})
        => /\ ~response.success
           /\ response.error \in {"no_image", "no_original", "not_set", "missing_param"}

\* C3: between two successful loads original always equals the image the
\* most recent successful load decoded, and is never the object current is.
C3_OriginalIsLoadedImage ==
    loads > 0 => /\ Pixels(original_image) = captured
                 /\ original_image.id # current_image.id

\* C4: current is None in every state before the first load that returns
\* success = true, failed loads included.
C4_NoneUntilLoadSucceeds == loads = 0 => current_image = None

\* C5: a successful load replaces current, original and the image the
\* transform library works on by the newly loaded image, in whatever state
\* it is issued; a reset from there returns the new image.
C5_LoadReplacesPair ==
    (Answered /\ IsLoad(request) /\ response.success)
        => LET new == Pixels(ImageOpen(LoadSource(request))) IN
           /\ Pixels(current_image) = new
           /\ Pixels(original_image) = new
           /\ picture_image = current_image
           /\ original_image.id # current_image.id
           /\ Pixels(HandleReset(Req("reset")).current) = new

\* a load that succeeded when an earlier load had succeeded already
C5_Witness == Answered /\ IsLoad(request) /\ response.success /\ loads = 2

\* C6: once a load has succeeded, current and original are never None again,
\* whatever requests follow.
C6_LoadedIsAbsorbing ==
    loads > 0 => (current_image # None /\ original_image # None)

\* a load that failed part-way after an earlier load had succeeded
C6_Witness ==
    /\ Answered /\ IsLoad(request) /\ ~response.success
    /\ loads > 0 /\ ~current_image.ok

\* C7: every request received on the input stream has got its response when
\* the input ends.
C7_EveryRequestAnswered == (~running /\ exitCause = "eof") => unanswered = 0

\* C8: no failure response stops the loop: once it is sent the loop is back
\* at readline, and the loop is only ever left on end of input or interrupt.
C8_FailureKeepsLoop ==
    [][/\ (Answered /\ ~response.success) => (running' /\ pc' = "readline")
       /\ (running /\ ~running') => exitCause' \in {"eof", "interrupt"}]_vars

\* a failure response for an exception raised inside a transform
C8_Witness ==
    /\ Answered /\ ~response.success /\ response.error = "pil"
    /\ request.action \in TransformActions

\* C9: a successful response to a mutating operation carries info and
\* preview, and info gives the size and mode of the new current image.
C9_InfoIsOfCurrent ==
    (Answered /\ request.action \in MutatingActions /\ response.success)
        => /\ {"info", "preview"} \subseteq response.keys
           /\ response.info.width = current_image.w
           /\ response.info.height = current_image.h
           /\ response.info.mode = current_image.mode
           /\ response.preview # NoPreview
           /\ response.preview.pixels.src = current_image.src

\* a successful mutating response whose preview is smaller than current
C9_Witness ==
    /\ Answered /\ request.action \in MutatingActions /\ response.success
    /\ current_image.w > PreviewMaxSize
    /\ response.preview.pixels.w < current_image.w

\* C10: a request that omits a parameter the catalogue marks as required
\* returns success = false and changes neither original nor current.
C10_MissingParameterRejected ==
    [][(pc = "readline" /\ pc' = "send" /\ Omitted(request'))
          => /\ ~response'.success
             /\ current_image' = current_image
             /\ original_image' = original_image]_vars

\* the values Picture.flip, art_effect, white_balance and edge_detect compare
\* their string parameter with
RecognizedValues(action) ==
    CASE action = "flip"          -> {"horizontal", "vertical"}
      [] action = "art_effect"    -> {"poster", "sketch", "oil_paint", "cartoon"}
      [] action = "white_balance" -> {"auto", "gray_world"}
      [] action = "edge_detect"   -> {"default", "enhance", "contour"}
      [] OTHER                    -> {}

\* a request for one of them that carries a value outside these
Unrecognized(req) ==
    \/ req.action = "flip" /\ Has(req, "direction")
          /\ req.direction \notin RecognizedValues("flip")
    \/ req.action = "art_effect" /\ Has(req, "effect_type")
          /\ req.effect_type \notin RecognizedValues("art_effect")
    \/ req.action \in {"white_balance", "edge_detect"} /\ Has(req, "method")
          /\ req.method \notin RecognizedValues(req.action)

\* C11: with an image loaded, a flip, art_effect, white_balance or
\* edge_detect request whose direction / effect_type / method is not a
\* recognized value returns success = false (with the error that names the
\* value: the statement is already refuted without that half).
C11_UnknownEnumRejected ==
    (Answered /\ current_image # None /\ Unrecognized(request))
        => ~response.success

\* an image a run of successful requests can leave in current: decodable, not
\* empty, with a preview that can be built
Sound(img) ==
    /\ img # None /\ CanLoad(img) /\ ~Empty(img)
    /\ CreatePreview(img).raised = ""

\* C12: in a Loaded state that successful operations lead to, every
\* transform other than crop, crop_center and resize succeeds when its
\* string parameter is a recognized value, for default and for
\* out-of-range numeric parameters alike.
C12_TransformsSucceed ==
    [][(/\ pc = "readline" /\ pc' = "send"
        /\ loads > 0 /\ Sound(current_image)
        /\ request'.action \in TransformActions \ {"crop", "crop_center", "resize"}
        /\ ~Unrecognized(request'))
          => response'.success]_vars

\* C13: a crop request whose box has right <= left or bottom <= top returns
\* success = false and leaves current unchanged; current never becomes an
\* image of zero width or height.
C13_DegenerateCropRejected ==
    [][(/\ pc = "readline" /\ pc' = "send" /\ current_image # None
        /\ request'.action = "crop" /\ {"right", "bottom"} \subseteq request'.has
        /\ \/ request'.right <= Get(request', "left", 0)
           \/ request'.bottom <= Get(request', "top", 0))
          => /\ ~response'.success
             /\ current_image' = current_image
             /\ ~Empty(current_image')]_vars

\* a crop_center request carrying both sizes, about to be handled
CropCenterAsked(req) ==
    /\ req.action = "crop_center" /\ {"width", "height"} \subseteq req.has
    /\ req.width >= 1 /\ req.height >= 1

\* C14: crop_center(w, h) with w above the current width or h above the
\* current height returns success = false and leaves current unchanged.
C14_OversizedCenterCropRejected ==
    [][(/\ pc = "readline" /\ pc' = "send" /\ Sound(current_image)
        /\ picture_image = current_image /\ CropCenterAsked(request')
        /\ \/ request'.width > current_image.w
           \/ request'.height > current_image.h)
          => /\ ~response'.success
             /\ current_image' = current_image]_vars

\* C15: on a W x H source and for 1 <= w <= W, 1 <= h <= H, crop_center(w, h)
\* crops the box left = floor((W - w) / 2), top = floor((H - h) / 2),
\* right = left + w, bottom = top + h, which lies inside the source, and
\* current becomes an image of exactly w x h.
C15_CenterCropBox ==
    [][(/\ pc = "readline" /\ pc' = "send" /\ picture_image # None
        /\ current_image # None /\ CropCenterAsked(request')
        /\ request'.width <= picture_image.w
        /\ request'.height <= picture_image.h)
          => LET W   == picture_image.w
                 H   == picture_image.h
                 w   == request'.width
                 h   == request'.height
                 box == CropCenterBox(W, H, w, h)
             IN  /\ 2 * box.left <= W - w /\ W - w < 2 * box.left + 2
                 /\ 2 * box.top <= H - h /\ H - h < 2 * box.top + 2
                 /\ box.right = box.left + w /\ box.bottom = box.top + h
                 /\ 0 <= box.left /\ box.right <= W
                 /\ 0 <= box.top /\ box.bottom <= H
                 /\ current_image'.w = w /\ current_image'.h = h]_vars

\* a center crop whose offsets are halves of odd differences
C15_Witness ==
    /\ Answered /\ request.action = "crop_center" /\ response.success
    /\ current_image.w = 7 /\ current_image.h = 5

\* C16: resize with keep_aspect on a W x H source and a positive target
\* (tw, th) succeeds and gives (max(1, round(W * s)), max(1, round(H * s)))
\* for s = min(tw / W, th / H), each side rounded to the nearest integer.
C16_KeepAspectRounds ==
    [][(/\ pc = "readline" /\ pc' = "send" /\ Sound(current_image)
        /\ picture_image = current_image
        /\ request'.action = "resize" /\ {"width", "height"} \subseteq request'.has
        /\ request'.width >= 1 /\ request'.height >= 1
        /\ Get(request', "keep_aspect", FALSE))
          => LET W  == current_image.w
                 H  == current_image.h
                 tw == request'.width
                 th == request'.height
                 byWidth == tw * H <= th * W
                 num == IF byWidth THEN tw ELSE th
                 den == IF byWidth THEN W ELSE H
                 \* r is side * num / den rounded to a nearest integer (either
                 \* one at a tie), and 1 where that is 0
                 Rounded(side, r) ==
                     \/ Abs(2 * side * num - 2 * r * den) <= den /\ r >= 1
                     \/ 2 * side * num <= den /\ r = 1
             IN  /\ response'.success
                 /\ Rounded(W, current_image'.w)
                 /\ Rounded(H, current_image'.h)]_vars

\* C17: the preview of a W x H image is the image itself when W and H are at
\* most 1024; otherwise it is a reduced image whose sides are at least 1 and
\* at most 1024 and keep the source's aspect ratio up to integer rounding,
\* however extreme that ratio is.
C17_PreviewBounds ==
    (current_image # None /\ CanLoad(current_image) /\ ~Empty(current_image))
        => LET W == current_image.w
               H == current_image.h
               preview == CreatePreview(current_image)
           IN  /\ preview.raised = ""
               /\ IF W <= PreviewMaxSize /\ H <= PreviewMaxSize
                  THEN preview.img.w = W /\ preview.img.h = H
                  ELSE /\ preview.img.w \in 1..PreviewMaxSize
                       /\ preview.img.h \in 1..PreviewMaxSize
                       /\ Abs(preview.img.w * H - preview.img.h * W) <= Max(W, H)

\* C18: every encoded image a response carries, as preview or as
\* get_base64's base64, is in the one fixed lossy encoding, at the one
\* constant quality and without alpha, whatever the loaded file's format,
\* the mode of current, the quality of save_file requests and the format
\* given to get_base64.
C18_FixedEncoding ==
    (Answered /\ response.preview # NoPreview)
        => /\ response.preview.encoding = "JPEG"
           /\ response.preview.quality = PreviewQuality
           /\ response.preview.pixels.mode = "RGB"

\* get_base64 asked for another format, on an image with alpha loaded from
\* a PNG file
C18_Witness ==
    /\ Answered /\ request.action = "get_base64" /\ response.success
    /\ Has(request, "format") /\ request.format # "JPEG"
    /\ HasAlpha(current_image) /\ current_image.format = "PNG"

\* C19: when current carries an alpha channel, a successful color-only
\* operation leaves current with an alpha channel (in the same mode).
C19_AlphaKept ==
    [][(/\ pc = "readline" /\ pc' = "send" /\ Sound(current_image)
        /\ picture_image = current_image /\ HasAlpha(current_image)
        /\ request'.action \in
              {"brightness", "contrast", "saturation", "white_balance",
               "color_temperature", "hue_shift", "auto_contrast", "equalize",
               "invert", "sepia", "vignette"}
        /\ ~Unrecognized(request')
        /\ response'.success)
          => /\ HasAlpha(current_image')
             /\ current_image'.mode = current_image.mode]_vars

\* the action names handle_request has a branch for
DispatchedActions ==
    TransformActions \cup
    {"load_file", "load_base64", "save_file", "get_base64", "get_info",
     "batch_load", "reset", "list_actions", "ping"}

\* C20: the operation names list_actions returns are exactly the action
\* names the router dispatches, list_actions and ping included.
C20_CatalogueInSync ==
    (Answered /\ request.action = "list_actions" /\ response.success)
        => response.actions = DispatchedActions

C22_FlipTwiceIsIdentity ==
    (flipRun.count = 2 /\ flipRun.decoded)
        => Pixels(current_image) = flipRun.before

\* a second vertical flip answered, on an image a transform had changed
C22_Witness ==
    /\ Answered /\ request.action = "flip" /\ response.success
    /\ flipRun.count = 2 /\ flipRun.direction = "vertical" /\ flipRun.decoded
    /\ current_image.edits > 0

\* a color_temperature request that replaced current, about to be answered
TemperatureApplied ==
    Answered /\ request.action = "color_temperature" /\ adjusted # <<>>

\* C23 as written: for 1000 <= T < 6500 the red channel is multiplied by
\* 1 + a and the blue channel by 1 - a with a <= 0.20, the 20 percent being
\* reached at T = 1000 and never exceeded.
C23_CappedFromThousand ==
    TemperatureApplied
        => LET T == Get(request, "temperature", 6500)
               gains == ColorTemperatureGains(T)
           IN  (1000 <= T /\ T < 6500) => 5 * (gains.red - gains.den) <= gains.den

\* C23, amended: for T < 6500 the red channel is multiplied by 1 + a and the
\* blue channel by 1 - a with a = 0.2 * (6500 - T) / 4500, which is at most
\* 0.20 exactly for T >= 2000; for T >= 6500 red is multiplied by 1 - a and
\* blue by 1 + a with a = 0.2 * (T - 6500) / 3500, at most 0.20 exactly for
\* T <= 10000; green is unchanged and every sample is clamped to 0..255.
C23_TemperatureGains ==
    TemperatureApplied
        => LET T == Get(request, "temperature", 6500)
               gains == ColorTemperatureGains(T)
               up   == IF T < 6500 THEN gains.red - gains.den
                       ELSE gains.blue - gains.den
               down == IF T < 6500 THEN gains.den - gains.blue
                       ELSE gains.den - gains.red
           IN  /\ gains.green = gains.den
               /\ up = down /\ up >= 0
               /\ T < 6500 => /\ up * 22500 = (6500 - T) * gains.den
                              /\ (5 * up <= gains.den) <=> (T >= 2000)
               /\ T >= 6500 => /\ up * 17500 = (T - 6500) * gains.den
                               /\ (5 * up <= gains.den) <=> (T <= 10000)
               /\ \A i \in 1..3 : adjusted[i] \in 0..255
               /\ adjusted[2] = Probe[2]
               /\ (Probe[1] * gains.red >= 255 * gains.den) => adjusted[1] = 255
               /\ (gains.red <= 0) => adjusted[1] = 0

\* color_temperature applied at 1000 K, the red sample clamped at 255
C23_Witness ==
    /\ TemperatureApplied /\ response.success
    /\ Get(request, "temperature", 6500) = 1000 /\ adjusted[1] = 255

\* C24: a transform request that is answered success=false in a Loaded state
\* leaves current, original and the image held by Picture exactly as they
\* were before the request.
C24_FailedTransformKeepsState ==
    [][(/\ AtLine /\ loads > 0
        /\ current_image # None /\ original_image # None
        /\ pc' = "send" /\ request'.action \in TransformActions
        /\ ~response'.success)
       => /\ current_image' = current_image
          /\ original_image' = original_image
          /\ picture_image' = picture_image]_vars

\* C25: after every request, whatever its outcome, the image held by Picture
\* is the same object as the server's current_image.
C25_PictureHoldsCurrent == Answered => picture_image = current_image

\* C26: after every request, original_image is None exactly when
\* current_image is None.
C26_BackupIffCurrent ==
    Answered => ((original_image = None) <=> (current_image = None))

\* C27: get_info, get_base64, save_file, batch_load, list_actions and ping,
\* and a request whose action no branch names (answered success=false with an
\* error that names the action), leave current and original unchanged in
\* every state, whether they succeed or fail.
C27_ReadOnlyKeepsImages ==
    [][(/\ AtLine /\ pc' = "send"
        /\ request'.action \notin MutatingActions)
       => /\ current_image' = current_image
          /\ original_image' = original_image
          /\ (request'.action \notin
                   DispatchedActions \cup {"<not json>", "<not an object>"}
                => /\ ~response'.success
                   /\ response'.error = "unknown action: " \o request'.action)]_vars

\* a loaded image with an alpha channel was encoded or saved, which flattens
\* what is written, and the request was answered with success
C27_Witness ==
    /\ Answered /\ current_image # None /\ original_image # None
    /\ request.action \in {"get_base64", "save_file"}
    /\ response.success
    /\ current_image.mode = "RGBA"

\* C28: generating a preview never changes current: after a successful load,
\* reset or size-preserving transform of an image with a side longer than
\* 1024, current has the full size of that image while the preview in the
\* response is the downsized one.
C28_PreviewLeavesCurrent ==
    [][LET full == IF IsLoad(request') THEN LoadSource(request')
                   ELSE IF request'.action = "reset" THEN original_image
                   ELSE current_image
       IN  (/\ AtLine /\ pc' = "send" /\ response'.success
            /\ request'.action \in
                 MutatingActions \ {"thumbnail", "resize", "rotate", "crop",
                                    "crop_center", "add_border"}
            /\ Max(full.w, full.h) > PreviewMaxSize)
           => /\ current_image'.w = full.w
              /\ current_image'.h = full.h
              /\ Max(response'.preview.pixels.w, response'.preview.pixels.h)
                    <= PreviewMaxSize]_vars

\* a transform of a 2000 x 1000 image was answered with a 1024-wide preview
C28_Witness ==
    /\ Answered /\ request.action \in TransformActions /\ response.success
    /\ current_image.w = 2000
    /\ response.preview.pixels.w = PreviewMaxSize

\* C29: for a successfully loaded image, the info (width, height, mode,
\* format) a successful reset returns equals the info the load response
\* returned, whatever transforms came between the two.
C29_ResetInfoIsLoadInfo ==
    (Answered /\ request.action = "reset" /\ response.success /\ loads > 0)
        => response.info =
              [width |-> captured.w, height |-> captured.h, mode |-> captured.mode,
               format |-> (CHOOSE f \in Sources : f.name = captured.src).format]

\* C30: every response the server writes is an object with a boolean success
\* field; a failure carries an error string and none of info, preview,
\* base64, path, files, count or actions; a success carries no error field.
C30_ResponseShape ==
    Answered
        => /\ response.success \in BOOLEAN
           /\ "success" \in response.keys
           /\ ~response.success
                => /\ "error" \in response.keys
                   /\ response.error \in STRING /\ response.error # ""
                   /\ response.keys \cap {"info", "preview", "base64", "path",
                                          "files", "count", "actions"} = {}
                   /\ response.info = NoInfo /\ response.preview = NoPreview
                   /\ response.actions = {}
           /\ response.success => "error" \notin response.keys

\* a transform of a loaded image was answered with a failure
C30_Witness ==
    /\ Answered /\ loads > 0 /\ request.action \in TransformActions
    /\ ~response.success /\ response.keys = {"success", "error"}

====
